---- MODULE Spec2Model ----
(***************************************************************************)
(* Model of the Streamlit dashboard script src/code.py: one execution of   *)
(* the script ("cycle") is a sequence of steps over the script's           *)
(* variables; a widget change re-runs the script from the top against the  *)
(* st.cache_data memo of load_data.                                        *)
(*                                                                         *)
(* Tables are sequences of rows; a row carries its pandas index label      *)
(* (idx), which the boolean-mask filter keeps and idxmax/loc use.          *)
(* LIC and LSC are finite numbers (integers here); quotients (Centro and   *)
(* the means) are exact rationals [num, den] in lowest terms.  Missing     *)
(* values (NaN) in the input file are outside this model.                  *)
(***************************************************************************)
EXTENDS Integers, Sequences, FiniteSets

VARIABLES
    file,        \* rows of LIMITESANGLE.csv (never changes)
    cache,       \* st.cache_data memo of load_data: <<>> or <<table>>
    aliased,     \* TRUE iff df is the very object the memo holds
    widgets,     \* widget state of the session: <<>> (defaults) or <<[bases, vars]>>
    pc,          \* next step of the script in the current cycle
    df,          \* the script's df
    bases_sel,   \* value of the Base multiselect
    vars_sel,    \* value of the Variable multiselect
    df_filt,     \* the filtered table
    kpi,         \* <<>> or <<[lic_max, lic_min, lsc_max, lsc_min]>> rows
    metrics,     \* the c1..c4 st.metric calls, in order
    df_base,     \* tab 1: rows of the single selected base
    df_melt,     \* tab 1: long-format table
    df_vars,     \* tab 2: per-Variable means
    shown,       \* tab 2: table handed to st.dataframe
    df_heat,     \* tab 3: <<>> or <<pivot>>
    notices,     \* st.warning / st.info messages emitted in this cycle
    executed     \* pandas / chart operations executed in this cycle

vars == <<file, cache, aliased, widgets, pc, df, bases_sel, vars_sel, df_filt,
          kpi, metrics, df_base, df_melt, df_vars, shown, df_heat, notices,
          executed>>

---------------------------------------------------------------------------
(* Input domains *)

MaxRows == 3

\* category values of the two key columns, in ascending (sorted) order
Order == <<"A", "B", "X", "Y">>
Bases == {"A", "B"}
Variables == {"X", "Y"}
\* <<LIC, LSC>> pairs of a row
Limits == {<<2, 2>>, <<1, 4>>}

FileRows ==
    {[Base |-> b, Variable |-> v, LIC |-> l[1], LSC |-> l[2]] :
        b \in Bases, v \in Variables, l \in Limits}

Files == UNION {[1..n -> FileRows] : n \in 0..MaxRows}

Range(s) == {s[i] : i \in DOMAIN s}

\* duplicate-free lists over S (a multiselect never returns a value twice)
Selections(S) ==
    {s \in UNION {[1..n -> S] : n \in 0..Cardinality(S)} :
        \A i, j \in DOMAIN s : i # j => s[i] # s[j]}

---------------------------------------------------------------------------
(* Numbers *)

Abs(n) == IF n < 0 THEN -n ELSE n

RECURSIVE GCD(_, _)
GCD(a, b) == IF b = 0 THEN a ELSE GCD(b, a % b)

\* the quotient n / d (d > 0) in lowest terms
Rat(n, d) ==
    LET g == GCD(Abs(n), d)
    IN  [num |-> (IF n < 0 THEN -(Abs(n) \div g) ELSE n \div g), den |-> d \div g]

---------------------------------------------------------------------------
(* pandas operations used by the script *)

\* pd.read_csv: one row per file line, labelled by a RangeIndex 0..n-1.
\* The header names are stripped of whitespace (line 30), so the columns
\* are addressed as Base, Variable, LIC, LSC.
read_csv(f) ==
    [i \in 1..Len(f) |->
        [idx |-> i - 1, Base |-> f[i].Base, Variable |-> f[i].Variable,
         LIC |-> f[i].LIC, LSC |-> f[i].LSC]]

\* a memo that hands out the stored object itself instead of a copy
load_data_shared(memo, f) ==
    IF memo = <<>>
    THEN [value |-> read_csv(f), memo |-> <<read_csv(f)>>, aliased |-> TRUE]
    ELSE [value |-> memo[1], memo |-> memo, aliased |-> TRUE]

\* @st.cache_data load_data: the first call reads the file and stores the
\* result; every call returns a private copy of the stored table.
load_data(memo, f) ==
    IF memo = <<>>
    THEN [value |-> read_csv(f), memo |-> <<read_csv(f)>>, aliased |-> FALSE]
    ELSE [value |-> memo[1], memo |-> memo, aliased |-> FALSE]

\* midpoint without the halving
CentroSum(lsc, lic) == Rat(lsc + lic, 1)

\* line 51: (LSC + LIC) / 2
Centro(lsc, lic) == Rat(lsc + lic, 2)

\* line 50: LSC - LIC
Rango(lsc, lic) == lsc - lic

\* lines 50-51: both derived columns are (re)assigned on every row of df
Derive(t) ==
    [i \in 1..Len(t) |->
        [idx |-> t[i].idx, Base |-> t[i].Base, Variable |-> t[i].Variable,
         LIC |-> t[i].LIC, LSC |-> t[i].LSC,
         Rango |-> Rango(t[i].LSC, t[i].LIC),
         Centro |-> Centro(t[i].LSC, t[i].LIC)]]

\* the subtraction with its operands swapped
RangoFiltSwapped(lsc, lic) == lic - lsc

\* line 89: LSC - LIC on the filtered table
RangoFilt(lsc, lic) == lsc - lic

\* line 89: Rango is reassigned on every row of df_filt
RederiveRango(t) ==
    [i \in 1..Len(t) |-> [t[i] EXCEPT !.Rango = RangoFilt(t[i].LSC, t[i].LIC)]]

\* Series.isin(values)
isin(x, values) == \E i \in DOMAIN values : values[i] = x

\* the two masks joined with | instead of &
MaskOr(r, bs, vs) == isin(r.Base, bs) \/ isin(r.Variable, vs)

\* lines 75-76: df[col_base].isin(bases_sel) & df[col_var].isin(vars_sel)
Mask(r, bs, vs) == isin(r.Base, bs) /\ isin(r.Variable, vs)

\* lines 74-77: boolean-mask selection; rows keep their order and labels
FilterRows(t, bs, vs) == SelectSeq(t, LAMBDA r : Mask(r, bs, vs))

\* sorted(...): ascending order of the category values
sorted(S) == SelectSeq(Order, LAMBDA x : x \in S)

\* Series.unique()
unique(t, col) == {t[i][col] : i \in DOMAIN t}

Max(S) == CHOOSE m \in S : \A x \in S : x <= m
Min(S) == CHOOSE m \in S : \A x \in S : m <= x

FirstPos(t, col, v) == Min({i \in DOMAIN t : t[i][col] = v})

\* the label of the last row holding the maximum
idxmax_last(t, col) ==
    LET m == Max(unique(t, col))
    IN  t[Max({i \in DOMAIN t : t[i][col] = m})].idx

\* Series.idxmax() of a non-empty column: label of the first row holding
\* the maximum
idxmax(t, col) == t[FirstPos(t, col, Max(unique(t, col)))].idx

\* Series.idxmin() of a non-empty column: label of the first row holding
\* the minimum
idxmin(t, col) == t[FirstPos(t, col, Min(unique(t, col)))].idx

\* DataFrame.loc[label]: the row carrying that index label
loc(t, label) == t[CHOOSE i \in DOMAIN t : t[i].idx = label]

RECURSIVE Sum(_, _)
Sum(t, col) == IF t = <<>> THEN 0 ELSE t[1][col] + Sum(Tail(t), col)

\* mean(): arithmetic mean of a column over a non-empty group
mean(t, col) == Rat(Sum(t, col), Len(t))

\* rows of t whose column col equals v, in order
Where(t, col, v) == SelectSeq(t, LAMBDA r : r[col] = v)

\* lines 92-97: the four extreme rows
Extremes(t) ==
    [lic_max |-> loc(t, idxmax(t, "LIC")), lic_min |-> loc(t, idxmin(t, "LIC")),
     lsc_max |-> loc(t, idxmax(t, "LSC")), lsc_min |-> loc(t, idxmin(t, "LSC"))]

\* f"{x:.2f}" of an integer-valued limit: the value in units and hundredths
Format2f(x) == [units |-> x, cents |-> 0]

\* one st.metric call: label, formatted value, "Base - Variable" caption
metric(label, row, col) ==
    [label |-> label, value |-> Format2f(row[col]),
     delta |-> <<row.Base, row.Variable>>]

\* lines 101-123: c1..c4
Metrics(k) ==
    <<metric("LIC maximo", k.lic_max, "LIC"), metric("LIC minimo", k.lic_min, "LIC"),
      metric("LSC maximo", k.lsc_max, "LSC"), metric("LSC minimo", k.lsc_min, "LSC")>>

\* one output row per group, the means taken over the whole table
GroupMeansAll(t) ==
    LET keys == sorted(unique(t, "Variable"))
    IN  [k \in 1..Len(keys) |->
            [Variable |-> keys[k], LSC |-> mean(t, "LSC"), LIC |-> mean(t, "LIC")]]

\* lines 198-203: groupby(Variable)[[LSC, LIC]].mean().reset_index()
\* .sort_values(Variable): one row per observed Variable, keys ascending
GroupMeans(t) ==
    LET keys == sorted(unique(t, "Variable"))
    IN  [k \in 1..Len(keys) |->
            [Variable |-> keys[k],
             LSC |-> mean(Where(t, "Variable", keys[k]), "LSC"),
             LIC |-> mean(Where(t, "Variable", keys[k]), "LIC")]]

\* the value of a pivot cell whose pair has no rows
NaN == [nan |-> TRUE]

\* the cell under fill_value=0
CellZero(t, b, v) ==
    LET g == SelectSeq(t, LAMBDA r : r.Base = b /\ r.Variable = v)
    IN  IF g = <<>> THEN Rat(0, 1) ELSE mean(g, "Rango")

\* lines 276-281: one cell, the mean of Rango over the pair's rows
Cell(t, b, v) ==
    LET g == SelectSeq(t, LAMBDA r : r.Base = b /\ r.Variable = v)
    IN  IF g = <<>> THEN NaN ELSE mean(g, "Rango")

\* lines 276-281: pivot_table(index=Base, columns=Variable, values=Rango,
\* aggfunc="mean"): sorted observed keys on both axes
PivotRango(t) ==
    [index |-> sorted(unique(t, "Base")), columns |-> sorted(unique(t, "Variable")),
     values |-> [b \in unique(t, "Base"), v \in unique(t, "Variable") |->
                    Cell(t, b, v)]]

\* one block of melt: the column col of every row, in row order
MeltColumn(t, col) ==
    [i \in 1..Len(t) |->
        [Variable |-> t[i].Variable, Tipo_Limite |-> col, Valor |-> t[i][col]]]

\* melt with the LSC block left out
MeltLicOnly(t) == MeltColumn(t, "LIC")

\* lines 158-163: melt(id_vars=[Variable], value_vars=[LIC, LSC]): the LIC
\* block followed by the LSC block
Melt(t) == MeltColumn(t, "LIC") \o MeltColumn(t, "LSC")

\* line 267: the columns handed to st.dataframe
Display(t) ==
    [i \in 1..Len(t) |->
        [idx |-> t[i].idx, Base |-> t[i].Base, Variable |-> t[i].Variable,
         LIC |-> t[i].LIC, LSC |-> t[i].LSC, Rango |-> t[i].Rango,
         Centro |-> t[i].Centro]]

---------------------------------------------------------------------------
(* The script, step by step *)

\* the emptiness test left out
NeverEmpty(t) == FALSE

\* line 79: df_filt.empty
IsEmpty(t) == t = <<>>

\* any non-empty selection accepted
AtLeastOneBase(bs) == Len(bs) >= 1

\* line 148: len(bases_sel) == 1
SingleBase(bs) == Len(bs) = 1

Init ==
    /\ file \in Files
    /\ cache = <<>>
    /\ aliased = FALSE
    /\ widgets = <<>>
    /\ pc = "load"
    /\ df = <<>>
    /\ bases_sel = <<>>
    /\ vars_sel = <<>>
    /\ df_filt = <<>>
    /\ kpi = <<>>
    /\ metrics = <<>>
    /\ df_base = <<>>
    /\ df_melt = <<>>
    /\ df_vars = <<>>
    /\ shown = <<>>
    /\ df_heat = <<>>
    /\ notices = {}
    /\ executed = {}

\* line 36: df = load_data(FILE_PATH)
Load ==
    /\ pc = "load"
    /\ LET r == load_data(cache, file)
       IN  /\ df' = r.value
           /\ cache' = r.memo
           /\ aliased' = r.aliased
    /\ pc' = "derive"
    /\ UNCHANGED <<file, widgets, bases_sel, vars_sel, df_filt, kpi, metrics,
                   df_base, df_melt, df_vars, shown, df_heat, notices, executed>>

\* lines 50-51: the derived columns are written into df; the write reaches
\* the memo only if df is the memo's own object
DeriveStep ==
    /\ pc = "derive"
    /\ df' = Derive(df)
    /\ cache' = IF aliased THEN <<df'>> ELSE cache
    /\ pc' = "widgets"
    /\ UNCHANGED <<file, aliased, widgets, bases_sel, vars_sel, df_filt, kpi,
                   metrics, df_base, df_melt, df_vars, shown, df_heat, notices,
                   executed>>

\* lines 59-72: the two multiselects return the session's widget state, or
\* their default (every observed value, sorted) on the first run
Multiselects ==
    /\ pc = "widgets"
    /\ bases_sel' = IF widgets = <<>> THEN sorted(unique(df, "Base"))
                    ELSE widgets[1].bases
    /\ vars_sel' = IF widgets = <<>> THEN sorted(unique(df, "Variable"))
                   ELSE widgets[1].vars
    /\ pc' = "filter"
    /\ UNCHANGED <<file, cache, aliased, widgets, df, df_filt, kpi, metrics,
                   df_base, df_melt, df_vars, shown, df_heat, notices, executed>>

\* lines 74-77: df_filt is a new table (.copy()), df is left alone
Filter ==
    /\ pc = "filter"
    /\ df_filt' = FilterRows(df, bases_sel, vars_sel)
    /\ pc' = "check"
    /\ UNCHANGED <<file, cache, aliased, widgets, df, bases_sel, vars_sel, kpi,
                   metrics, df_base, df_melt, df_vars, shown, df_heat, notices,
                   executed>>

\* lines 79-81: warning and st.stop() on an empty filtered table
EmptyCheck ==
    /\ pc = "check"
    /\ IF IsEmpty(df_filt)
       THEN /\ notices' = notices \cup {"warning_empty"}
            /\ pc' = "stopped"
       ELSE /\ notices' = notices
            /\ pc' = "kpis"
    /\ UNCHANGED <<file, cache, aliased, widgets, df, bases_sel, vars_sel,
                   df_filt, kpi, metrics, df_base, df_melt, df_vars, shown,
                   df_heat, executed>>

\* lines 89-123: Rango is recomputed on df_filt, the four extreme rows are
\* looked up and shown.  idxmax of an empty column raises.
KPIs ==
    /\ pc = "kpis"
    /\ df_filt' = RederiveRango(df_filt)
    /\ IF df_filt = <<>>
       THEN /\ executed' = executed \cup {"idxmax"}
            /\ pc' = "error"
            /\ UNCHANGED <<kpi, metrics>>
       ELSE /\ kpi' = <<Extremes(df_filt')>>
            /\ metrics' = Metrics(kpi'[1])
            /\ executed' = executed \cup {"idxmax", "idxmin", "metric"}
            /\ pc' = "tab1"
    /\ UNCHANGED <<file, cache, aliased, widgets, df, bases_sel, vars_sel,
                   df_base, df_melt, df_vars, shown, df_heat, notices>>

\* lines 145-189: the grouped bar chart of the single selected base
Tab1 ==
    /\ pc = "tab1"
    /\ IF SingleBase(bases_sel)
       THEN /\ df_base' = Where(df_filt, "Base", bases_sel[1])
            /\ IF df_base' = <<>>
               THEN /\ notices' = notices \cup {"warning_base"}
                    /\ UNCHANGED <<df_melt, executed>>
               ELSE /\ df_melt' = Melt(df_base')
                    /\ executed' = executed \cup {"melt", "fig_bar_limits"}
                    /\ notices' = notices
       ELSE /\ notices' = notices \cup {"info_one_base"}
            /\ UNCHANGED <<df_base, df_melt, executed>>
    /\ pc' = "tab2"
    /\ UNCHANGED <<file, cache, aliased, widgets, df, bases_sel, vars_sel,
                   df_filt, kpi, metrics, df_vars, shown, df_heat>>

\* lines 195-267: per-Variable means, their three charts, the data table
Tab2 ==
    /\ pc = "tab2"
    /\ df_vars' = GroupMeans(df_filt)
    /\ shown' = Display(df_filt)
    /\ executed' = executed \cup {"groupby_mean", "fig_detalle", "fig_lic_bar",
                                  "fig_lsc_bar", "dataframe"}
    /\ pc' = "tab3"
    /\ UNCHANGED <<file, cache, aliased, widgets, df, bases_sel, vars_sel,
                   df_filt, kpi, metrics, df_base, df_melt, df_heat, notices>>

\* lines 273-292: the Rango pivot and its heatmap
Tab3 ==
    /\ pc = "tab3"
    /\ df_heat' = <<PivotRango(df_filt)>>
    /\ executed' = executed \cup {"pivot_table", "fig_heat"}
    /\ pc' = "done"
    /\ UNCHANGED <<file, cache, aliased, widgets, df, bases_sel, vars_sel,
                   df_filt, kpi, metrics, df_base, df_melt, df_vars, shown,
                   notices>>

\* a widget change: Streamlit re-runs the script from the top with fresh
\* script variables; only the memo and the widget state survive.  The
\* selection ranges over every value of the domain, observed in the table
\* or not.
Rerun ==
    /\ pc \in {"done", "stopped", "error"}
    /\ \E bs \in Selections(Bases), vs \in Selections(Variables) :
          widgets' = <<[bases |-> bs, vars |-> vs]>>
    /\ pc' = "load"
    /\ aliased' = FALSE
    /\ df' = <<>>
    /\ bases_sel' = <<>>
    /\ vars_sel' = <<>>
    /\ df_filt' = <<>>
    /\ kpi' = <<>>
    /\ metrics' = <<>>
    /\ df_base' = <<>>
    /\ df_melt' = <<>>
    /\ df_vars' = <<>>
    /\ shown' = <<>>
    /\ df_heat' = <<>>
    /\ notices' = {}
    /\ executed' = {}
    /\ UNCHANGED <<file, cache>>

Next ==
    \/ Load
    \/ DeriveStep
    \/ Multiselects
    \/ Filter
    \/ EmptyCheck
    \/ KPIs
    \/ Tab1
    \/ Tab2
    \/ Tab3
    \/ Rerun

Spec == Init /\ [][Next]_vars

---------------------------------------------------------------------------
(* Properties *)

\* the filter has run in the current cycle
Filtered == pc \in {"check", "kpis", "tab1", "tab2", "tab3", "done", "stopped"}

\* the aggregation steps have begun in the current cycle
PastKPIs == pc \in {"tab1", "tab2", "tab3", "done"}

\* tab 1 has been rendered in the current cycle
PastTab1 == pc \in {"tab2", "tab3", "done"}

Rank(x) == CHOOSE i \in DOMAIN Order : Order[i] = x

Ascending(keys) == \A i, j \in DOMAIN keys : i < j => Rank(keys[i]) < Rank(keys[j])

RECURSIVE SumIdx(_, _, _)
SumIdx(S, t, col) ==
    IF S = {} THEN 0
    ELSE LET i == CHOOSE x \in S : TRUE
         IN  t[i][col] + SumIdx(S \ {i}, t, col)

\* q is the arithmetic mean of column col over the rows S of t
IsMeanOf(q, S, t, col) ==
    /\ DOMAIN q = {"num", "den"}
    /\ q.den > 0
    /\ q.num * Cardinality(S) = SumIdx(S, t, col) * q.den

SameLimits(r, f) ==
    /\ r.Base = f.Base
    /\ r.Variable = f.Variable
    /\ r.LIC = f.LIC
    /\ r.LSC = f.LSC

Passes(f) == f.Base \in Range(bases_sel) /\ f.Variable \in Range(vars_sel)

\* C1: the filtered table holds exactly the rows of the loaded table whose
\* Base is selected AND whose Variable is selected: every kept row is a row
\* of the file, unchanged, that passes both tests; every row of the file
\* that passes both tests is kept; labels strictly increase along df_filt
\* (no duplicate, order preserved); a selected value absent from the table
\* therefore keeps nothing.
C1_FilterExact ==
    Filtered =>
        /\ \A i \in DOMAIN df_filt :
              /\ df_filt[i].idx + 1 \in DOMAIN file
              /\ SameLimits(df_filt[i], file[df_filt[i].idx + 1])
              /\ Passes(df_filt[i])
        /\ \A j \in DOMAIN file :
              Passes(file[j]) => \E i \in DOMAIN df_filt : df_filt[i].idx = j - 1
        /\ \A i, k \in DOMAIN df_filt : i < k => df_filt[i].idx < df_filt[k].idx

\* two rows kept around a dropped one, a row dropped by the Variable test
\* alone, and a selected Base that the table does not contain
C1_Witness ==
    /\ Filtered
    /\ Len(df_filt) >= 2
    /\ df_filt[2].idx > df_filt[1].idx + 1
    /\ \E j \in DOMAIN file :
          file[j].Base \in Range(bases_sel) /\ file[j].Variable \notin Range(vars_sel)
    /\ \E b \in Range(bases_sel) : b \notin unique(df, "Base")

NoAggregates ==
    /\ executed = {}
    /\ kpi = <<>>
    /\ metrics = <<>>
    /\ df_base = <<>>
    /\ df_melt = <<>>
    /\ df_vars = <<>>
    /\ shown = <<>>
    /\ df_heat = <<>>

\* C2: when the filtered table is empty the cycle goes from the emptiness
\* test straight to the stop with the warning emitted, and no extremes
\* lookup, mean, pivot, reshape or chart call is executed; whenever any of
\* them has been executed the filtered table has at least one row.
C2_EmptyStops ==
    /\ (Filtered /\ df_filt = <<>>) =>
          /\ pc \in {"check", "stopped"}
          /\ NoAggregates
    /\ pc = "stopped" => (df_filt = <<>> /\ "warning_empty" \in notices)
    /\ pc # "error"
    /\ executed # {} => Len(df_filt) >= 1

\* a stopped cycle whose two selections are both non-empty over a non-empty
\* table: the intersection with the data is empty
C2_Witness ==
    /\ pc = "stopped"
    /\ df # <<>>
    /\ bases_sel # <<>>
    /\ vars_sel # <<>>

ReshapeDone ==
    \/ "melt" \in executed
    \/ "fig_bar_limits" \in executed
    \/ df_melt # <<>>

\* C3 (as claimed): at the end of every cycle whose selection has 0 bases or
\* 2 or more bases the guidance message has been shown and there is no
\* reshape or chart data for tab 1.
C3_GuidanceForEveryNonSingle ==
    (pc \in {"done", "stopped"} /\ Len(bases_sel) # 1) =>
        /\ "info_one_base" \in notices
        /\ ~ReshapeDone

\* C3 (amended): the reshape and its chart run only when exactly one base
\* is selected; a cycle with 2 or more bases selected and a non-empty
\* filtered table shows the guidance message and produces no reshape or
\* chart data for tab 1; a cycle whose filtered table is empty, which
\* includes every cycle with 0 bases selected, ends at the empty-data
\* warning before tab 1, with neither the guidance message nor tab 1 data.
C3_SingleBaseGating ==
    /\ ReshapeDone => Len(bases_sel) = 1
    /\ (PastTab1 /\ Len(bases_sel) # 1) =>
          /\ Len(bases_sel) >= 2
          /\ "info_one_base" \in notices
          /\ ~ReshapeDone
          /\ df_base = <<>>
    /\ (Filtered /\ pc # "check" /\ Len(bases_sel) = 0) => pc = "stopped"
    /\ pc = "stopped" => ("info_one_base" \notin notices /\ ~ReshapeDone)

\* two bases selected, both with rows: guidance instead of the chart
C3_Witness ==
    /\ pc = "done"
    /\ Len(bases_sel) = 2
    /\ Cardinality(unique(df_filt, "Base")) = 2
    /\ "info_one_base" \in notices

\* row is the first row of df_filt, in row order, that attains the largest
\* (sign = 1) or smallest (sign = -1) value of column col
FirstExtreme(row, col, sign) ==
    \E i \in DOMAIN df_filt :
        /\ df_filt[i] = row
        /\ \A j \in DOMAIN df_filt : sign * df_filt[j][col] <= sign * row[col]
        /\ \A j \in DOMAIN df_filt : j < i => df_filt[j][col] # row[col]

Reports(m, row, col) ==
    /\ m.value.units = row[col]
    /\ m.value.cents = 0
    /\ m.delta = <<row.Base, row.Variable>>

\* C4: each of the four KPI rows is a row of the filtered table that
\* attains the extreme of its column, the first such row in the filtered
\* table's order when several share it, and the metric shows that row's
\* value, Base and Variable.
C4_ExtremesFirst ==
    PastKPIs =>
        /\ df_filt # <<>>
        /\ Len(kpi) = 1
        /\ FirstExtreme(kpi[1].lic_max, "LIC", 1)
        /\ FirstExtreme(kpi[1].lic_min, "LIC", -1)
        /\ FirstExtreme(kpi[1].lsc_max, "LSC", 1)
        /\ FirstExtreme(kpi[1].lsc_min, "LSC", -1)
        /\ Len(metrics) = 4
        /\ Reports(metrics[1], kpi[1].lic_max, "LIC")
        /\ Reports(metrics[2], kpi[1].lic_min, "LIC")
        /\ Reports(metrics[3], kpi[1].lsc_max, "LSC")
        /\ Reports(metrics[4], kpi[1].lsc_min, "LSC")

\* the maximum LIC is shared by the second and third filtered rows, which
\* differ in Base and Variable; the second is reported
C4_Witness ==
    /\ PastKPIs
    /\ Len(df_filt) = 3
    /\ df_filt[1].LIC < df_filt[2].LIC
    /\ df_filt[2].LIC = df_filt[3].LIC
    /\ df_filt[2].Base # df_filt[3].Base
    /\ df_filt[2].Variable # df_filt[3].Variable
    /\ metrics[1].delta = <<df_filt[2].Base, df_filt[2].Variable>>

RowsWith(t, col, v) == {i \in DOMAIN t : t[i][col] = v}

\* C5: df_vars has exactly one row per Variable occurring in the filtered
\* table, in ascending order of Variable, and the row's LIC and LSC are the
\* arithmetic means of LIC and of LSC over all filtered rows with that
\* Variable, whatever their Base.
C5_PerVariableMeans ==
    pc \in {"tab3", "done"} =>
        /\ {df_vars[k].Variable : k \in DOMAIN df_vars} = unique(df_filt, "Variable")
        /\ Len(df_vars) = Cardinality(unique(df_filt, "Variable"))
        /\ Ascending([k \in DOMAIN df_vars |-> df_vars[k].Variable])
        /\ \A k \in DOMAIN df_vars :
              LET S == RowsWith(df_filt, "Variable", df_vars[k].Variable)
              IN  /\ IsMeanOf(df_vars[k].LIC, S, df_filt, "LIC")
                  /\ IsMeanOf(df_vars[k].LSC, S, df_filt, "LSC")

\* both Variables selected, only one occurring in the filtered rows, which
\* come from two Bases with different LIC: one row, a fractional mean
C5_Witness ==
    /\ pc = "done"
    /\ Len(vars_sel) = 2
    /\ Len(df_vars) = 1
    /\ Cardinality(unique(df_filt, "Base")) = 2
    /\ df_vars[1].LIC.den = 2

\* C6: df_heat has one row per Base and one column per Variable of the
\* filtered table, both ascending; the cell (b, v) is the arithmetic mean
\* of Rango over the filtered rows with that Base and Variable when there
\* is one, and the absent value, which is not the number 0, when there is
\* none.
C6_HeatmapMatrix ==
    pc = "done" =>
        /\ Len(df_heat) = 1
        /\ LET h == df_heat[1]
           IN  /\ Range(h.index) = unique(df_filt, "Base")
               /\ Range(h.columns) = unique(df_filt, "Variable")
               /\ Ascending(h.index)
               /\ Ascending(h.columns)
               /\ DOMAIN h.values = Range(h.index) \X Range(h.columns)
               /\ \A b \in Range(h.index), v \in Range(h.columns) :
                     LET S == {i \in DOMAIN df_filt :
                                  df_filt[i].Base = b /\ df_filt[i].Variable = v}
                     IN  IF S = {}
                         THEN /\ h.values[b, v] = NaN
                              /\ h.values[b, v] # Rat(0, 1)
                         ELSE IsMeanOf(h.values[b, v], S, df_filt, "Rango")

\* a 2 x 2 matrix with an absent cell next to a cell whose mean Rango is 0
C6_Witness ==
    /\ pc = "done"
    /\ Len(df_heat[1].index) = 2
    /\ Len(df_heat[1].columns) = 2
    /\ \E b \in Bases, v \in Variables : df_heat[1].values[b, v] = NaN
    /\ \E b \in Bases, v \in Variables : df_heat[1].values[b, v] = Rat(0, 1)

\* the derived columns of row r are those of r's own limits, which are the
\* limits of the file line r is labelled with
DerivedFromOwnLimits(r) ==
    /\ r.idx + 1 \in DOMAIN file
    /\ SameLimits(r, file[r.idx + 1])
    /\ r.Rango = r.LSC - r.LIC
    /\ r.Centro.den > 0
    /\ 2 * r.Centro.num = (r.LSC + r.LIC) * r.Centro.den

\* C7: in the filtered table, from the filter to the end of the cycle, and
\* in the table displayed in tab 2, every row's Rango is its own LSC - LIC
\* and its Centro is its own (LSC + LIC) / 2.
C7_DerivedColumns ==
    /\ Filtered => \A i \in DOMAIN df_filt : DerivedFromOwnLimits(df_filt[i])
    /\ \A i \in DOMAIN shown : DerivedFromOwnLimits(shown[i])
    /\ pc \in {"tab3", "done"} => Len(shown) = Len(df_filt)

\* a proper subset of the rows is displayed, one of them with a fractional
\* Centro and the first row of the file filtered out
C7_Witness ==
    /\ pc = "done"
    /\ Len(shown) >= 1
    /\ Len(shown) < Len(df)
    /\ shown[1].idx > 0
    /\ \E i \in DOMAIN shown : shown[i].Centro.den = 2

IsFileTable(t) ==
    /\ Len(t) = Len(file)
    /\ \A i \in DOMAIN t : t[i].idx = i - 1 /\ SameLimits(t[i], file[i])

\* what a cycle leaves behind
Outputs ==
    [df_filt |-> df_filt, kpi |-> kpi, metrics |-> metrics, df_base |-> df_base,
     df_melt |-> df_melt, df_vars |-> df_vars, shown |-> shown,
     df_heat |-> df_heat, notices |-> notices]

\* the outputs of a first cycle over file f with the selection (bs, vs)
FreshOutputs(f, bs, vs) ==
    LET full == Derive(read_csv(f))
        filt == FilterRows(full, bs, vs)
        one  == Len(bs) = 1
    IN  IF filt = <<>>
        THEN [df_filt |-> <<>>, kpi |-> <<>>, metrics |-> <<>>, df_base |-> <<>>,
              df_melt |-> <<>>, df_vars |-> <<>>, shown |-> <<>>, df_heat |-> <<>>,
              notices |-> {"warning_empty"}]
        ELSE [df_filt |-> filt, kpi |-> <<Extremes(filt)>>,
              metrics |-> Metrics(Extremes(filt)),
              df_base |-> IF one THEN filt ELSE <<>>,
              df_melt |-> IF one THEN Melt(filt) ELSE <<>>,
              df_vars |-> GroupMeans(filt), shown |-> Display(filt),
              df_heat |-> <<PivotRango(filt)>>,
              notices |-> IF one THEN {} ELSE {"info_one_base"}]

\* C8: across any sequence of re-runs the memo of load_data holds the table
\* read from the file and nothing else (no derived column, no filtering is
\* written back), the table each cycle works on has the file's rows and
\* Base, Variable, LIC and LSC values, the selection in force is the
\* current widget state, and what a finished cycle leaves behind is what a
\* first cycle over the file with that selection would leave.
C8_HistoryIndependence ==
    /\ cache # <<>> => cache = <<read_csv(file)>>
    /\ pc # "load" => (cache # <<>> /\ IsFileTable(df))
    /\ (Filtered /\ widgets # <<>>) =>
          (bases_sel = widgets[1].bases /\ vars_sel = widgets[1].vars)
    /\ pc \in {"done", "stopped"} => Outputs = FreshOutputs(file, bases_sel, vars_sel)

\* a later cycle, finished, whose selection keeps fewer rows than the first
\* cycle's default selection did
C8_Witness ==
    /\ widgets # <<>>
    /\ pc = "done"
    /\ Len(df_filt) < Len(df)
    /\ Len(bases_sel) = 1

\* C9: deriving a derived table again changes nothing, and after Rango has
\* been recomputed on the filtered table every filtered row has the Rango,
\* LIC, LSC and Centro of the row of the full table with the same label.
C9_RederiveIdempotent ==
    /\ pc \notin {"load", "derive"} => Derive(df) = df
    /\ PastKPIs =>
          \A i \in DOMAIN df_filt :
              \E j \in DOMAIN df :
                  /\ df[j].idx = df_filt[i].idx
                  /\ df_filt[i].Rango = df[j].Rango
                  /\ df_filt[i].LIC = df[j].LIC
                  /\ df_filt[i].LSC = df[j].LSC
                  /\ df_filt[i].Centro = df[j].Centro

\* Rango recomputed on a proper, non-empty subset holding a non-zero Rango
C9_Witness ==
    /\ pc = "tab1"
    /\ Len(df_filt) < Len(df)
    /\ \E i \in DOMAIN df_filt : df_filt[i].Rango # 0

Count(t, x) == Cardinality({i \in DOMAIN t : t[i] = x})

LongRecord(r, col) == [Variable |-> r.Variable, Tipo_Limite |-> col, Valor |-> r[col]]

\* C10: once tab 1 has run with exactly one base selected, df_base is the
\* whole filtered table (hence not empty), and df_melt holds, for every
\* filtered row, its (Variable, LIC, LIC value) and (Variable, LSC, LSC
\* value) records, each as often as rows produce it, and nothing else; the
\* inner "no data for this base" warning is never emitted.
C10_MeltSingleBase ==
    /\ "warning_base" \notin notices
    /\ (PastTab1 /\ Len(bases_sel) = 1) =>
          /\ df_base = df_filt
          /\ df_base # <<>>
          /\ Len(df_melt) = 2 * Len(df_filt)
          /\ \A x \in Range(df_melt) \cup
                      {LongRecord(df_filt[i], c) : i \in DOMAIN df_filt, c \in {"LIC", "LSC"}} :
                Count(df_melt, x) =
                    Cardinality({i \in DOMAIN df_filt : LongRecord(df_filt[i], "LIC") = x})
                    + Cardinality({i \in DOMAIN df_filt : LongRecord(df_filt[i], "LSC") = x})

\* one base selected out of two present, two of its rows kept
C10_Witness ==
    /\ pc = "done"
    /\ Len(bases_sel) = 1
    /\ Len(df_filt) = 2
    /\ Len(df_filt) < Len(df)
    /\ Len(df_melt) = 4

====
